---- MODULE Spec2Model ----
(***************************************************************************)
(* Facility 365 Portal (src/Facility.py): the routing of a request through *)
(* its status strings by the role dashboards, over the SQLite tables       *)
(* users, requests, audit and payments.                                    *)
(*                                                                         *)
(* Every run_query commits on its own (run_query, lines 88-93).  A         *)
(* dashboard handler is one Streamlit script run: it SELECTs the rows      *)
(* pending for its role and then, for the row whose button was clicked,    *)
(* UPDATEs or INSERTs by id.  Script runs of different browser sessions    *)
(* execute concurrently and nothing ties a run's SELECT to its UPDATE.     *)
(* A handler is therefore taken either as a whole (k = 0: no statement of  *)
(* another session falls between its SELECT and its writes), or statement  *)
(* by statement through a slot k of `runs`: the SELECT (pc "read"), the    *)
(* write, and for the GMD the second write (pc "insert").  `runs` holds    *)
(* the script runs that other sessions overtake.                           *)
(*                                                                         *)
(* Sessions are logged in (login_function is outside the model, and so are *)
(* its "Login" audit entries); hist is a history variable: the statuses    *)
(* each request has held, in order.  A behaviour has at most MaxRuns        *)
(* overtaken runs: a slot that has finished (pc "done") is not used again, *)
(* and the slots are taken in order.  Overtaken runs are explored on a     *)
(* requests table of at most MaxRaceReq rows.                              *)
(***************************************************************************)
EXTENDS Integers, Sequences, FiniteSets, TLC

VARIABLES users, requests, payments, audit, cart, runs, hist

vars == <<users, requests, payments, audit, cart, runs, hist>>

(* ------------------------------ bounds -------------------------------- *)
MaxReq     == 2 \* requests inserted in a behaviour (and items in the cart)
MaxRaceReq == 1 \* the same, in a behaviour with overtaken script runs
MaxCost    == 1 \* largest cost typed into a number_input
MaxRuns    == 2 \* script runs that other sessions overtake, in a behaviour
MaxPay     == 2 \* rows of the payments table

(* ----------------------------- constants ------------------------------ *)
\* CATEGORY_OPTIONS, lines 115-122: one representative item per category,
\* "CUG Issue" typed as the free text of category "Others", and an empty
\* free text.
CartChoices ==
    { [type |-> "Stationary",    item |-> "A4 Paper",    qty |-> 1],
      [type |-> "Communication", item |-> "CUG Issue",   qty |-> 1],
      [type |-> "Facility",      item |-> "Door Repair", qty |-> 1],
      [type |-> "Others",        item |-> "CUG Issue",   qty |-> 1],
      [type |-> "Others",        item |-> "",            qty |-> 1] }

PendingStatuses == {"Pending Dept HOD", "Pending Admin", "Pending SS HOD",
                    "Pending SAC", "Pending ED", "Pending GMD"}

\* make_hash, lines 82-83: sha256 is modelled as an injective tag.
make_hash(password) == <<"sha256", password>>

UserRow(password, role, name, email, dept, hod_email, force_reset) ==
    [password |-> make_hash(password), role |-> role, name |-> name, email |-> email,
     dept |-> dept, hod_email |-> hod_email, force_reset |-> force_reset]

\* The users table: the default Superuser of init_db (lines 64-71) and one
\* account per approver role, created earlier and past its password reset.
\* Staff accounts are created by the Superuser in the model.
InitUsers ==
    [u \in {"super", "hod", "admin", "sshod", "sac", "ed", "gmd", "accounts"} |->
        CASE u = "super" -> UserRow("123", "Superuser", "IT Admin", "it@co.com", "IT", "", 0)
          [] u = "hod"   -> UserRow("pw", "Dept HOD", "Hod",      "hod@co.com",   "Ops",   "", 0)
          [] u = "admin" -> UserRow("pw", "Admin",    "Admin",    "admin@co.com", "Admin", "", 0)
          [] u = "sshod" -> UserRow("pw", "SS HOD",   "SsHod",    "ss@co.com",    "SS",    "", 0)
          [] u = "sac"   -> UserRow("pw", "SAC",      "Sac",      "sac@co.com",   "SAC",   "", 0)
          [] u = "ed"    -> UserRow("pw", "ED",       "Ed",       "ed@co.com",    "Exec",  "", 0)
          [] u = "gmd"   -> UserRow("pw", "GMD",      "Gmd",      "gmd@co.com",   "Exec",  "", 0)
          [] OTHER       -> UserRow("pw", "Accounts", "Accounts", "acc@co.com",   "Fin",   "", 0)]

IdleRun == [pc |-> "idle", user |-> "", rid |-> 0, amount |-> 0, vendor |-> ""]

Runs == 1..MaxRuns

\* k = 0 is a script run taken as a whole.
RunsOrWhole == 0..MaxRuns

Init ==
    /\ users = InitUsers
    /\ requests = <<>>
    /\ payments = <<>>
    /\ audit = <<>>
    /\ cart = <<>>
    /\ runs = [k \in Runs |-> IdleRun]
    /\ hist = <<>>

(* ----------------------------- helpers -------------------------------- *)
Ids == 1..Len(requests)

\* Routed without the force_reset test of line 391.
Routed_NoGate(u, role) ==
    /\ u \in DOMAIN users
    /\ users[u].role = role

\* main, lines 386-409: the dashboard of a role is rendered for a logged-in
\* user whose stored force_reset is not 1.
Routed(u, role) ==
    /\ u \in DOMAIN users
    /\ users[u].force_reset # 1
    /\ users[u].role = role

\* The statuses a request has held: st is appended when it differs from
\* the status the row has.
Held(rid, st) ==
    hist' = IF requests[rid].status = st THEN hist
            ELSE [hist EXCEPT ![rid] = Append(@, st)]

\* run_query("UPDATE requests SET status=... WHERE id=?"): the row with that
\* id gets the status whatever its status was.
SetStatus(rid, st) ==
    /\ requests' = [requests EXCEPT ![rid].status = st]
    /\ Held(rid, st)

\* The SELECT of a script run that other sessions may overtake: slot k
\* keeps the clicked row of the list it has read.
FreeSlot(k) ==
    /\ runs[k].pc = "idle"
    /\ \A j \in Runs : j < k => runs[j].pc # "idle"
    /\ Len(requests) + Len(cart) <= MaxRaceReq

BeginRun(k, u, rid) ==
    /\ FreeSlot(k)
    /\ runs' = [runs EXCEPT ![k] = [pc |-> "read", user |-> u, rid |-> rid,
                                    amount |-> 0, vendor |-> ""]]

DoneRun == [pc |-> "done", user |-> "", rid |-> 0, amount |-> 0, vendor |-> ""]

EndRun(k) == runs' = [runs EXCEPT ![k] = DoneRun]

\* The row rid a handler of user u acts on: the clicked row of the list
\* read in this step (k = 0), or of the list slot k read earlier.
Overtaken(k, u, rid, list) ==
    /\ runs[k].pc = "read" /\ runs[k].user = u /\ runs[k].rid = rid

Clicked(k, u, rid, list) ==
    IF k = 0 THEN rid \in list /\ UNCHANGED runs
    ELSE Overtaken(k, u, rid, list) /\ EndRun(k)

(* --------------------------- staff portal ----------------------------- *)
\* view_staff_portal, lines 207-214: "Add" appends the chosen item when the
\* selection is not empty.
\* The requests a behaviour may still insert.
ReqBound == IF \E k \in Runs : runs[k].pc # "idle" THEN MaxRaceReq ELSE MaxReq

AddToCart(u, c) ==
    /\ Routed(u, "Staff")
    /\ Len(requests) + Len(cart) < ReqBound
    /\ cart' = IF c.item # "" THEN Append(cart, c) ELSE cart
    /\ UNCHANGED <<users, requests, payments, audit, runs, hist>>

IsStationary(i) == i.type = "Stationary"
IsOther(i) == i.type # "Stationary"

\* InitialStatus with the category test of line 152 left out.
InitialStatus_ItemOnly(i) ==
    IF i.type = "Stationary" THEN "Pending Admin"
    ELSE IF i.item = "CUG Issue" THEN "Pending Admin"
    ELSE "Pending Dept HOD"

\* lines 150-153: the status a non-Stationary cart item starts in.
InitialStatus(i) ==
    IF i.type = "Stationary" THEN "Pending Admin"
    ELSE IF i.type = "Communication" /\ i.item = "CUG Issue" THEN "Pending Admin"
    ELSE "Pending Dept HOD"

\* line 134: the description of the Stationary request, one "item (qty)"
\* per Stationary cart item.
Desc(stationary) == [j \in 1..Len(stationary) |-> <<stationary[j].item, stationary[j].qty>>]

\* The row of the INSERT of lines 138-141 and 155-158; the id (uuid4) is
\* the row's position in the table.
NewRow(rid, user_dict, uname, category, item, status, vendor) ==
    [id |-> rid, user_key |-> uname, requester_name |-> user_dict.name,
     department |-> user_dict.dept, approver_email |-> user_dict.hod_email,
     category |-> category, item |-> item, status |-> status,
     amount |-> 0, initial_cost |-> 0, vendor |-> vendor,
     invoice_img |-> "", sac_note |-> ""]

\* StationaryRows with one request per Stationary item of the cart.
StationaryRows_PerItem(c, base, user_dict, uname) ==
    LET stationary == SelectSeq(c, IsStationary)
    IN [j \in 1..Len(stationary) |->
          NewRow(base + j, user_dict, uname, "Stationary", Desc(<<stationary[j]>>),
                 "Pending Admin", "Store")]

\* lines 131-142: every Stationary item of the cart goes into one request.
StationaryRows(c, base, user_dict, uname) ==
    LET stationary == SelectSeq(c, IsStationary)
    IN IF stationary = <<>> THEN <<>>
       ELSE << NewRow(base + 1, user_dict, uname, "Stationary", Desc(stationary),
                      "Pending Admin", "Store") >>

\* lines 144-159: every other item is a request of its own.
OtherRows(c, base, user_dict, uname) ==
    LET others == SelectSeq(c, IsOther)
    IN [j \in 1..Len(others) |->
          NewRow(base + j, user_dict, uname, others[j].type, others[j].item,
                 InitialStatus(others[j]), "Pending")]

\* log_action, lines 95-97, for the rows inserted by a submission.
RequestLog(rows, user_dict) ==
    [j \in 1..Len(rows) |->
        [user |-> user_dict.name, action |-> "Request",
         details |-> <<rows[j].category, rows[j].id>>]]

\* process_cart_submission, lines 128-161, called from the Submit button
\* (lines 216-218), which exists only while the cart is not empty.
process_cart_submission(u) ==
    /\ Routed(u, "Staff")
    /\ cart # <<>>
    /\ LET srows == StationaryRows(cart, Len(requests), users[u], u)
           orows == OtherRows(cart, Len(requests) + Len(srows), users[u], u)
           rows  == srows \o orows
       IN /\ requests' = requests \o rows
          /\ hist' = hist \o [j \in 1..Len(rows) |-> <<rows[j].status>>]
          /\ audit' = audit \o RequestLog(rows, users[u])
    /\ cart' = <<>>
    /\ UNCHANGED <<users, payments, runs>>

(* ------------------------- Dept HOD dashboard ------------------------- *)
\* HodList that compares approver_email with the HOD's own hod_email.
HodList_WrongField(u) ==
    {r \in Ids : /\ requests[r].status = "Pending Dept HOD"
                 /\ requests[r].approver_email = users[u].hod_email}

\* view_hod_dashboard, line 326: the rows the HOD's run lists.
HodList(u) == {r \in Ids : /\ requests[r].status = "Pending Dept HOD"
                           /\ requests[r].approver_email = users[u].email}

HodRead(k, u, r) ==
    /\ Routed(u, "Dept HOD")
    /\ r \in HodList(u)
    /\ BeginRun(k, u, r)
    /\ UNCHANGED <<users, requests, payments, audit, cart, hist>>

\* lines 331-332
HodApprove(k, u, r) ==
    /\ Routed(u, "Dept HOD")
    /\ Clicked(k, u, r, HodList(u))
    /\ SetStatus(r, "Pending Admin")
    /\ UNCHANGED <<users, payments, audit, cart>>

\* lines 333-334
HodDecline(k, u, r) ==
    /\ Routed(u, "Dept HOD")
    /\ Clicked(k, u, r, HodList(u))
    /\ SetStatus(r, "Declined")
    /\ UNCHANGED <<users, payments, audit, cart>>

(* --------------------------- Admin dashboard -------------------------- *)
\* view_admin_dashboard, line 229
AdminList == {r \in Ids : requests[r].status = "Pending Admin"}

AdminRead(k, u, r) ==
    /\ Routed(u, "Admin")
    /\ r \in AdminList
    /\ BeginRun(k, u, r)
    /\ UNCHANGED <<users, requests, payments, audit, cart, hist>>

\* lines 235-237: the Issue button of a Stationary row.
AdminIssue(k, u, r) ==
    /\ Routed(u, "Admin")
    /\ Clicked(k, u, r, AdminList)
    /\ requests[r].category = "Stationary"
    /\ SetStatus(r, "Completed (Fulfilled)")
    /\ UNCHANGED <<users, payments, audit, cart>>

\* lines 238-240: the Resolve button of a row whose item is "CUG Issue".
AdminResolve(k, u, r) ==
    /\ Routed(u, "Admin")
    /\ Clicked(k, u, r, AdminList)
    /\ requests[r].category # "Stationary"
    /\ requests[r].item = "CUG Issue"
    /\ SetStatus(r, "Completed (Resolved)")
    /\ UNCHANGED <<users, payments, audit, cart>>

\* line 248: the cost form is accepted.
CostValid(v, c, img) == v # "" /\ c > 0 /\ img # ""

\* AdminSubmitCost with the category test of line 242 left out.
AdminSubmitCost_AnyCategory(k, u, r, v, c, img) ==
    /\ Routed(u, "Admin")
    /\ Clicked(k, u, r, AdminList)
    /\ IF CostValid(v, c, img)
       THEN /\ requests' = [requests EXCEPT ![r] =
                              [@ EXCEPT !.vendor = v, !.amount = c, !.initial_cost = c,
                                        !.invoice_img = img, !.status = "Pending SS HOD"]]
            /\ Held(r, "Pending SS HOD")
       ELSE UNCHANGED <<requests, hist>>
    /\ UNCHANGED <<users, payments, audit, cart>>

\* lines 242-251: the cost form of a row that is not Stationary.
AdminSubmitCost(k, u, r, v, c, img) ==
    /\ Routed(u, "Admin")
    /\ Clicked(k, u, r, AdminList)
    /\ requests[r].category # "Stationary"
    /\ IF CostValid(v, c, img)
       THEN /\ requests' = [requests EXCEPT ![r] =
                              [@ EXCEPT !.vendor = v, !.amount = c, !.initial_cost = c,
                                        !.invoice_img = img, !.status = "Pending SS HOD"]]
            /\ Held(r, "Pending SS HOD")
       ELSE UNCHANGED <<requests, hist>>
    /\ UNCHANGED <<users, payments, audit, cart>>

(* ----------------- SS HOD, ED and GMD dashboards ---------------------- *)
\* main, lines 404-407: the status each approver role lists and the status
\* its Approve button sets.
status_trigger(role) ==
    CASE role = "SS HOD" -> "Pending SS HOD"
      [] role = "ED"     -> "Pending ED"
      [] role = "GMD"    -> "Pending GMD"

next_status(role) ==
    CASE role = "SS HOD" -> "Pending SAC"
      [] role = "ED"     -> "Pending GMD"
      [] role = "GMD"    -> "Approved"

ApproverRoles == {"SS HOD", "ED", "GMD"}

\* view_approver_dashboard, line 259
ApproverList(role) == {r \in Ids : requests[r].status = status_trigger(role)}

\* The payments table holds at most MaxPay rows: a GMD run starts only
\* while there is room for its row.
GmdRunsInFlight ==
    Cardinality({k \in Runs : /\ runs[k].pc \in {"read", "insert"}
                               /\ users[runs[k].user].role = "GMD"})

RoomForPayment == Len(payments) + GmdRunsInFlight < MaxPay

\* lines 259-266: the run keeps the row it has read; its amount and vendor
\* are used again only by the GMD branch, so only a GMD run records them.
ApproverRead(k, u, role, r) ==
    /\ role \in ApproverRoles
    /\ Routed(u, role)
    /\ r \in ApproverList(role)
    /\ role = "GMD" => RoomForPayment
    /\ FreeSlot(k)
    /\ runs' = [runs EXCEPT ![k] =
                  [pc |-> "read", user |-> u, rid |-> r,
                   amount |-> IF role = "GMD" THEN requests[r].amount ELSE 0,
                   vendor |-> IF role = "GMD" THEN requests[r].vendor ELSE ""]]
    /\ UNCHANGED <<users, requests, payments, audit, cart, hist>>

\* lines 280-282: Approve by the SS HOD or the ED.
ApproverApprove(k, u, role, r) ==
    /\ role \in {"SS HOD", "ED"}
    /\ Routed(u, role)
    /\ Clicked(k, u, r, ApproverList(role))
    /\ SetStatus(r, next_status(role))
    /\ UNCHANGED <<users, payments, audit, cart>>

\* The payments row of lines 278-279; payment_id (uuid4) is the row's
\* position in the table.
NewPayment(rid, amount, vendor) ==
    [payment_id |-> Len(payments) + 1, req_id |-> rid, amount |-> amount,
     status |-> "Ready for Accounts", vendor |-> vendor]

\* lines 276-279: Approve by the GMD.  Taken as a whole (k = 0) the UPDATE
\* and the INSERT are one step; through a slot the UPDATE is committed
\* first and the INSERT is a step of its own.
GmdApprove(k, u, r) ==
    /\ Routed(u, "GMD")
    /\ IF k = 0
       THEN /\ r \in ApproverList("GMD")
            /\ RoomForPayment
            /\ payments' = Append(payments,
                                  NewPayment(r, requests[r].amount, requests[r].vendor))
            /\ UNCHANGED runs
       ELSE /\ Overtaken(k, u, r, ApproverList("GMD"))
            /\ runs' = [runs EXCEPT ![k].pc = "insert"]
            /\ UNCHANGED payments
    /\ SetStatus(r, "Approved")
    /\ UNCHANGED <<users, audit, cart>>

\* lines 278-279: the INSERT of a GMD run whose UPDATE is committed.
GmdInsertPayment(k, u) ==
    /\ runs[k].pc = "insert" /\ runs[k].user = u
    /\ payments' = Append(payments, NewPayment(runs[k].rid, runs[k].amount, runs[k].vendor))
    /\ EndRun(k)
    /\ UNCHANGED <<users, requests, audit, cart, hist>>

\* lines 283-284
ApproverDecline(k, u, role, r) ==
    /\ role \in ApproverRoles
    /\ Routed(u, role)
    /\ Clicked(k, u, r, ApproverList(role))
    /\ SetStatus(r, "Declined")
    /\ UNCHANGED <<users, payments, audit, cart>>

(* ---------------------------- SAC dashboard --------------------------- *)
\* view_sac_dashboard, line 291
SacList == {r \in Ids : requests[r].status = "Pending SAC"}

SacRead(k, u, r) ==
    /\ Routed(u, "SAC")
    /\ r \in SacList
    /\ BeginRun(k, u, r)
    /\ UNCHANGED <<users, requests, payments, audit, cart, hist>>

\* lines 304-309: Validate stores the negotiated cost and the note.
SacValidate(k, u, r, new_cost, note) ==
    /\ Routed(u, "SAC")
    /\ Clicked(k, u, r, SacList)
    /\ requests' = [requests EXCEPT ![r] =
                      [@ EXCEPT !.amount = new_cost, !.sac_note = note,
                                !.status = "Pending ED"]]
    /\ Held(r, "Pending ED")
    /\ UNCHANGED <<users, payments, audit, cart>>

(* ------------------------------ Accounts ------------------------------ *)
PaymentIds == 1..Len(payments)

\* view_accounts, line 365: payments ready for Accounts, joined to their
\* request.
AccountsList == {p \in PaymentIds :
                    /\ payments[p].status = "Ready for Accounts"
                    /\ payments[p].req_id \in Ids}

AccountsRead(k, u, p) ==
    /\ Routed(u, "Accounts")
    /\ p \in AccountsList
    /\ BeginRun(k, u, p)
    /\ UNCHANGED <<users, requests, payments, audit, cart, hist>>

\* MarkPaid that marks the request of the payment as well.
MarkPaid_AlsoRequest(k, u, p) ==
    /\ Routed(u, "Accounts")
    /\ Clicked(k, u, p, AccountsList)
    /\ payments' = [payments EXCEPT ![p].status = "Paid"]
    /\ requests' = [requests EXCEPT ![payments[p].req_id].status = "Paid"]
    /\ UNCHANGED <<users, audit, cart, hist>>

\* lines 375-376
MarkPaid(k, u, p) ==
    /\ Routed(u, "Accounts")
    /\ Clicked(k, u, p, AccountsList)
    /\ payments' = [payments EXCEPT ![p].status = "Paid"]
    /\ UNCHANGED <<users, requests, audit, cart, hist>>

(* ------------------------ Superuser, passwords ------------------------ *)
\* view_superuser, lines 341-355: Create inserts a user with force_reset 1;
\* an existing username raises and nothing is inserted.
CreateUser(su, u, p, r, n, e, d, h) ==
    /\ Routed(su, "Superuser")
    /\ users' = IF u # "" /\ p # "" /\ u \notin DOMAIN users
                THEN [x \in DOMAIN users \cup {u} |->
                        IF x = u THEN UserRow(p, r, n, e, d, h, 1) ELSE users[x]]
                ELSE users
    /\ UNCHANGED <<requests, payments, audit, cart, runs, hist>>

\* change_password_flow, lines 181-191, shown by main (line 391) while the
\* stored force_reset of the logged-in user is 1.
change_password_flow(u, p1, p2) ==
    /\ u \in DOMAIN users
    /\ users[u].force_reset = 1
    /\ users' = IF p1 = p2 /\ p1 # ""
                THEN [users EXCEPT ![u].password = make_hash(p1), ![u].force_reset = 0]
                ELSE users
    /\ UNCHANGED <<requests, payments, audit, cart, runs, hist>>

(* --------------------------- specification ---------------------------- *)
UserNames == DOMAIN users
CostInputs == 0..MaxCost
VendorInputs == {"", "Acme"}
InvoiceInputs == {"", "img"}
PasswordInputs == {"", "new"}
NewUserNames == {"", "super", "staff"}
HodEmails == {"hod@co.com", "nohod@co.com"}
DeptInputs == {"Ops", "Fin"}

\* main, lines 386-409: the stored force_reset and the role of the logged-in
\* user decide which view a script run renders; what the session of user u
\* can do in that view.
Staff(u) ==
    /\ Routed(u, "Staff")
    /\ \/ \E c \in CartChoices : AddToCart(u, c)
       \/ process_cart_submission(u)

DeptHod(u) ==
    /\ Routed(u, "Dept HOD")
    /\ \E r \in Ids :
          \/ \E k \in Runs : HodRead(k, u, r)
          \/ \E k \in RunsOrWhole : HodApprove(k, u, r)
          \/ \E k \in RunsOrWhole : HodDecline(k, u, r)

Admin(u) ==
    /\ Routed(u, "Admin")
    /\ \E r \in Ids :
          \/ \E k \in Runs : AdminRead(k, u, r)
          \/ \E k \in RunsOrWhole : AdminIssue(k, u, r)
          \/ \E k \in RunsOrWhole : AdminResolve(k, u, r)
          \/ \E k \in RunsOrWhole, v \in VendorInputs, c \in CostInputs,
                img \in InvoiceInputs : AdminSubmitCost(k, u, r, v, c, img)

Approver(u) ==
    \E role \in ApproverRoles :
        /\ Routed(u, role)
        /\ \E r \in Ids :
              \/ \E k \in Runs : ApproverRead(k, u, role, r)
              \/ \E k \in RunsOrWhole : ApproverApprove(k, u, role, r)
              \/ \E k \in RunsOrWhole : ApproverDecline(k, u, role, r)
              \/ role = "GMD" /\ \E k \in RunsOrWhole : GmdApprove(k, u, r)

GmdInsert(u) == \E k \in Runs : GmdInsertPayment(k, u)

Sac(u) ==
    /\ Routed(u, "SAC")
    /\ \E r \in Ids :
          \/ \E k \in Runs : SacRead(k, u, r)
          \/ \E k \in RunsOrWhole, c \in CostInputs : SacValidate(k, u, r, c, "note")

Accounts(u) ==
    /\ Routed(u, "Accounts")
    /\ \E p \in PaymentIds :
          \/ \E k \in Runs : AccountsRead(k, u, p)
          \/ \E k \in RunsOrWhole : MarkPaid(k, u, p)

Superuser(u) ==
    /\ Routed(u, "Superuser")
    /\ \E n \in NewUserNames, p \in {"", "tmp"}, d \in DeptInputs, h \in HodEmails :
          CreateUser(u, n, p, "Staff", "Staff", "staff@co.com", d, h)

Password(u) ==
    /\ users[u].force_reset = 1
    /\ \E p1 \in PasswordInputs, p2 \in PasswordInputs : change_password_flow(u, p1, p2)

SessionStep(u) ==
    \/ Staff(u) \/ DeptHod(u) \/ Admin(u) \/ Approver(u) \/ GmdInsert(u)
    \/ Sac(u) \/ Accounts(u) \/ Superuser(u) \/ Password(u)

Next == \E u \in UserNames : SessionStep(u)

Spec == Init /\ [][Next]_vars

(* ------------------------------ claims -------------------------------- *)
Range(f) == {f[i] : i \in DOMAIN f}

ChainStatuses == {"Pending Admin", "Pending SS HOD", "Pending SAC", "Pending ED",
                  "Pending GMD"}

Chain == <<"Pending Admin", "Pending SS HOD", "Pending SAC", "Pending ED", "Pending GMD">>

InChain(st) == st \in ChainStatuses

\* The category and item that skip the Dept HOD, as the claims name them.
StartsAtAdmin(row) ==
    \/ row.category = "Stationary"
    \/ row.category = "Communication" /\ row.item = "CUG Issue"

PaymentsOf(r) == {p \in PaymentIds : payments[p].req_id = r}

\* C1: an Approved request has held Pending Admin, SS HOD, SAC, ED and GMD,
\* each exactly once and in that order, and, unless it is Stationary or a
\* Communication "CUG Issue", Pending Dept HOD before Pending Admin.
C1_ApprovalChainOrder ==
    \A r \in Ids :
        requests[r].status = "Approved" =>
            /\ SelectSeq(hist[r], InChain) = Chain
            /\ ~StartsAtAdmin(requests[r]) =>
                  /\ hist[r][1] = "Pending Dept HOD"
                  /\ Cardinality({i \in DOMAIN hist[r] : hist[r][i] = "Pending Dept HOD"}) = 1

\* What C2 says of the payment row p.
PaymentFromApproval(p) ==
    /\ payments[p].req_id \in Ids
    /\ \E i \in DOMAIN hist[payments[p].req_id] :
          /\ i > 1
          /\ hist[payments[p].req_id][i] = "Approved"
          /\ hist[payments[p].req_id][i - 1] = "Pending GMD"
    /\ payments[p].amount = requests[payments[p].req_id].amount
    /\ payments[p].vendor = requests[payments[p].req_id].vendor

\* C2: after every step, every payment refers to an existing request that
\* the GMD moved from Pending GMD to Approved and carries the amount and
\* vendor that request has; a payment is inserted only by a step of a GMD
\* session, with status Ready for Accounts.
C2_PaymentsFromGmdApproval ==
    [][ \A p \in 1..Len(payments') :
          /\ PaymentFromApproval(p)'
          /\ p > Len(payments) =>
                /\ \E u \in UserNames : users[u].role = "GMD" /\ SessionStep(u)
                /\ payments'[p].status = "Ready for Accounts"
      ]_vars

\* C3: in every reachable state, the states between the committed statements
\* of an action included, an Approved request has a payment record.
C3_ApprovedHasPayment ==
    \A r \in Ids : requests[r].status = "Approved" => PaymentsOf(r) # {}

\* The role that owns a pending status.
Owner(st) ==
    CASE st = "Pending Dept HOD" -> "Dept HOD"
      [] st = "Pending Admin"    -> "Admin"
      [] st = "Pending SS HOD"   -> "SS HOD"
      [] st = "Pending SAC"      -> "SAC"
      [] st = "Pending ED"       -> "ED"
      [] st = "Pending GMD"      -> "GMD"

StepOfRole(role) == \E u \in UserNames : users[u].role = role /\ SessionStep(u)

\* C4: a request leaves a pending status only by a step of a session whose
\* role owns that status, and a payment's status changes only by a step of
\* an Accounts session.
C4_RoleGating ==
    [][ /\ \A r \in Ids :
              (requests[r].status \in PendingStatuses
                 /\ requests'[r].status # requests[r].status)
              => StepOfRole(Owner(requests[r].status))
        /\ \A p \in PaymentIds :
              payments'[p].status # payments[p].status => StepOfRole("Accounts")
      ]_vars

RequestStatuses == PendingStatuses \cup
    {"Approved", "Declined", "Completed (Fulfilled)", "Completed (Resolved)"}

\* C5: every request has one of the ten request statuses and every payment
\* is Ready for Accounts or Paid.
C5_FixedStatusSet ==
    /\ \A r \in Ids : requests[r].status \in RequestStatuses
    /\ \A p \in PaymentIds : payments[p].status \in {"Ready for Accounts", "Paid"}

Rank(st) ==
    CASE st = "Pending Dept HOD" -> 1
      [] st = "Pending Admin"    -> 2
      [] st = "Pending SS HOD"   -> 3
      [] st = "Pending SAC"      -> 4
      [] st = "Pending ED"       -> 5
      [] st = "Pending GMD"      -> 6
      [] st = "Approved"         -> 7
      [] OTHER                   -> 0

\* C6: a request's status never moves to a lower-ranked status and never
\* re-enters a status it has left.
C6_LinearProgress ==
    [][ \A r \in Ids :
          requests'[r].status # requests[r].status =>
             /\ (Rank(requests[r].status) > 0 /\ Rank(requests'[r].status) > 0)
                   => Rank(requests'[r].status) > Rank(requests[r].status)
             /\ requests'[r].status \notin Range(hist[r])
      ]_vars

\* C7: a request created by cart submission starts in Pending Admin if it is
\* the Stationary request or a Communication "CUG Issue", in Pending Dept
\* HOD otherwise, with amount 0 and initial_cost 0.
C7_InitialRouting ==
    [][ \A r \in 1..Len(requests') :
          r > Len(requests) =>
             /\ requests'[r].status =
                   IF StartsAtAdmin(requests'[r]) THEN "Pending Admin"
                   ELSE "Pending Dept HOD"
             /\ requests'[r].amount = 0
             /\ requests'[r].initial_cost = 0
      ]_vars

\* C9: no request has more than one payment record.
C9_OnePaymentPerRequest ==
    \A r \in Ids : Cardinality(PaymentsOf(r)) <= 1

TerminalStatuses == {"Declined", "Completed (Fulfilled)", "Completed (Resolved)", "Approved"}

\* C10: a Declined, Completed or Approved status is never changed, and a
\* Declined or Completed request has no payment record.
C10_TerminalAbsorbing ==
    [][ \A r \in Ids :
          /\ requests[r].status \in TerminalStatuses
                => requests'[r].status = requests[r].status
          /\ requests'[r].status \in TerminalStatuses \ {"Approved"}
                => \A p \in 1..Len(payments') : payments'[p].req_id # r
      ]_vars

\* C5 witness: the end of the chain, an Approved request whose payment is
\* Paid, next to a request that was declined or completed.
C5_Witness ==
    /\ \E r \in Ids : /\ requests[r].status = "Approved"
                      /\ \E p \in PaymentsOf(r) : payments[p].status = "Paid"
    /\ \E r \in Ids : requests[r].status \in
                         {"Declined", "Completed (Fulfilled)", "Completed (Resolved)"}

\* C7 witness: one submission has inserted the Stationary request and an
\* "Others" request whose free text is "CUG Issue", the latter pending with
\* the Dept HOD.
C7_Witness ==
    /\ Len(requests) = 2
    /\ requests[1].category = "Stationary" /\ requests[1].status = "Pending Admin"
    /\ requests[2].category = "Others" /\ requests[2].item = "CUG Issue"
    /\ hist[2] = <<"Pending Dept HOD">>

\* C11: a step of a Dept HOD session changes only requests that are in
\* Pending Dept HOD, are addressed to that HOD's email and belong to that
\* HOD's department.
C11_HodScope ==
    [][ \A u \in UserNames :
          (users[u].role = "Dept HOD" /\ DeptHod(u)) =>
             \A r \in Ids :
                requests'[r] # requests[r] =>
                   /\ requests[r].status = "Pending Dept HOD"
                   /\ requests[r].approver_email = users[u].email
                   /\ requests[r].department = users[u].dept
      ]_vars

\* A handler other than the Admin's Issue acts on request r in this step.
OtherThanIssue(r) ==
    \E u \in UserNames, k \in RunsOrWhole :
        \/ HodApprove(k, u, r) \/ HodDecline(k, u, r)
        \/ AdminResolve(k, u, r)
        \/ \E v \in VendorInputs, c \in CostInputs, img \in InvoiceInputs :
               AdminSubmitCost(k, u, r, v, c, img)
        \/ \E role \in ApproverRoles :
               ApproverApprove(k, u, role, r) \/ ApproverDecline(k, u, role, r)
        \/ GmdApprove(k, u, r)
        \/ \E c \in CostInputs : SacValidate(k, u, r, c, "note")

\* C12: after every step a Stationary request is in Pending Admin or
\* Completed (Fulfilled) with amount 0, initial_cost 0 and vendor "Store",
\* has no payment and is in no list but the Admin's; the only handler that
\* acts on it is the Admin's Issue, which changes nothing but its status.
C12_StationaryOutsideCostChain ==
    [][ \A r \in 1..Len(requests') :
          requests'[r].category = "Stationary" =>
             /\ requests'[r].status \in {"Pending Admin", "Completed (Fulfilled)"}
             /\ requests'[r].amount = 0
             /\ requests'[r].initial_cost = 0
             /\ requests'[r].vendor = "Store"
             /\ \A p \in 1..Len(payments') : payments'[p].req_id # r
             /\ \A u \in UserNames : r \notin HodList(u)'
             /\ \A role \in ApproverRoles : r \notin ApproverList(role)'
             /\ r \notin SacList'
             /\ r \in Ids =>
                   /\ ~OtherThanIssue(r)
                   /\ requests'[r] # requests[r] =>
                         /\ \E u \in UserNames, k \in RunsOrWhole : AdminIssue(k, u, r)
                         /\ requests'[r] =
                               [requests[r] EXCEPT !.status = "Completed (Fulfilled)"]
      ]_vars

\* C12 witness: a Stationary request has been issued while another request
\* has gone through the cost chain to a payment.
C12_Witness ==
    \E r \in Ids, r2 \in Ids :
        /\ requests[r].category = "Stationary"
        /\ requests[r].status = "Completed (Fulfilled)"
        /\ PaymentsOf(r2) # {}

\* The Stationary items of the cart, the other items, and the requests a
\* submission of the cart is to insert.
CartStationary == Cardinality({j \in DOMAIN cart : cart[j].type = "Stationary"})

CartOthers == Cardinality({j \in DOMAIN cart : cart[j].type # "Stationary"})

CartRequests == (IF CartStationary > 0 THEN 1 ELSE 0) + CartOthers

Inserted == (Len(requests) + 1)..Len(requests')

\* C13: while the cart is empty no step inserts a request or an audit entry;
\* a step that inserts a request or an audit entry or empties the cart is the
\* submission of a non-empty cart by a Staff user: it leaves the old rows
\* alone, inserts (1 if the cart has Stationary items else 0) + (number of
\* other items) requests carrying that user's username, name, department
\* and hod_email, appends one "Request" audit entry per inserted request and
\* empties the cart.
C13_CartSubmission ==
    [][ /\ cart = <<>> => (Len(requests') = Len(requests) /\ audit' = audit)
        /\ (Len(requests') # Len(requests) \/ audit' # audit
               \/ (cart # <<>> /\ cart' = <<>>)) =>
             /\ cart # <<>> /\ cart' = <<>>
             /\ Len(requests') = Len(requests) + CartRequests
             /\ \A r \in Ids : requests'[r] = requests[r]
             /\ \E u \in UserNames :
                   /\ users[u].role = "Staff" /\ Staff(u)
                   /\ \A r \in Inserted :
                         /\ requests'[r].user_key = u
                         /\ requests'[r].requester_name = users[u].name
                         /\ requests'[r].department = users[u].dept
                         /\ requests'[r].approver_email = users[u].hod_email
                   /\ \A j \in (Len(audit) + 1)..Len(audit') :
                         audit'[j].user = users[u].name /\ audit'[j].action = "Request"
             /\ Len(audit') = Len(audit) + CartRequests
             /\ \A j \in DOMAIN audit : audit'[j] = audit[j]
             /\ \A r \in Inserted :
                   Cardinality({j \in (Len(audit) + 1)..Len(audit') :
                                  audit'[j].details[2] = requests'[r].id}) = 1
      ]_vars

\* C13 witness: a cart of two Stationary items has been submitted: one
\* request, one audit entry, an empty cart.
C13_Witness ==
    /\ Len(requests) = 1
    /\ requests[1].category = "Stationary"
    /\ Len(requests[1].item) = 2
    /\ Len(audit) = 1
    /\ cart = <<>>

\* The Admin's cost submission has moved request r to Pending SS HOD.
CostSubmitted(r) == "Pending SS HOD" \in Range(hist[r])

\* C14: a request moves from Pending Admin to Pending SS HOD only with a
\* non-empty vendor, an invoice and amount = initial_cost > 0; afterwards no
\* step changes its initial_cost and only the SAC's Validate changes its
\* amount; every request in Pending SS HOD or Pending SAC has
\* amount = initial_cost > 0; every payment's amount is > 0 and at most the
\* initial_cost of its request.
C14_CostFields ==
    [][ /\ \A r \in Ids :
              /\ (requests[r].status = "Pending Admin"
                    /\ requests'[r].status = "Pending SS HOD") =>
                       /\ requests'[r].vendor # ""
                       /\ requests'[r].invoice_img # ""
                       /\ requests'[r].amount = requests'[r].initial_cost
                       /\ requests'[r].initial_cost > 0
              /\ CostSubmitted(r) =>
                       /\ requests'[r].initial_cost = requests[r].initial_cost
                       /\ requests'[r].amount # requests[r].amount =>
                             \E u \in UserNames, k \in RunsOrWhole, c \in CostInputs :
                                 SacValidate(k, u, r, c, "note")
        /\ \A r \in 1..Len(requests') :
              requests'[r].status \in {"Pending SS HOD", "Pending SAC"} =>
                 /\ requests'[r].amount = requests'[r].initial_cost
                 /\ requests'[r].initial_cost > 0
        /\ \A p \in 1..Len(payments') :
              /\ payments'[p].amount > 0
              /\ payments'[p].amount <= requests'[payments'[p].req_id].initial_cost
      ]_vars

\* C15: Mark Paid acts only on a payment that is Ready for Accounts, whose
\* request is and stays Approved; it sets that payment's status to Paid and
\* leaves its other fields, every other payment, the requests and the users
\* unchanged; a payment's status changes in no other step and never leaves
\* Paid.
C15_MarkPaid ==
    [][ /\ \A u \in UserNames, k \in RunsOrWhole, p \in PaymentIds :
              MarkPaid(k, u, p) =>
                 /\ payments[p].status = "Ready for Accounts"
                 /\ payments' = [payments EXCEPT ![p].status = "Paid"]
                 /\ requests' = requests
                 /\ requests[payments[p].req_id].status = "Approved"
                 /\ users' = users
        /\ \A p \in PaymentIds :
              /\ payments[p].status = "Paid" => payments'[p].status = "Paid"
              /\ payments'[p].status # payments[p].status =>
                    \E u \in UserNames, k \in RunsOrWhole : MarkPaid(k, u, p)
      ]_vars

\* A dashboard action of the session of user u.
DashboardStep(u) ==
    \/ Staff(u) \/ DeptHod(u) \/ Admin(u) \/ Approver(u) \/ GmdInsert(u)
    \/ Sac(u) \/ Accounts(u) \/ Superuser(u)

\* A password change of user u with a mismatched or empty pair that changes
\* the users table.
BadPairChangesUsers(u) ==
    \E p1 \in PasswordInputs, p2 \in PasswordInputs :
        /\ ~(p1 = p2 /\ p1 # "")
        /\ change_password_flow(u, p1, p2)
        /\ users' # users

\* C16: a user enters the users table only by a Superuser's step and with
\* force_reset 1; no step is a dashboard action of a user whose stored
\* force_reset is 1; force_reset changes only from 1 to 0 and only by that
\* user's password change with two equal non-empty passwords, which stores
\* their hash; no mismatched or empty pair can change the users table.
C16_ForcedResetGate ==
    /\ [](\A u \in UserNames : ~ENABLED BadPairChangesUsers(u))
    /\ [][ /\ \A u \in DOMAIN users' :
                 u \notin DOMAIN users =>
                    /\ users'[u].force_reset = 1
                    /\ \E su \in UserNames : users[su].role = "Superuser" /\ Superuser(su)
           /\ \A u \in UserNames :
                 /\ users[u].force_reset = 1 => ~DashboardStep(u)
                 /\ users'[u].force_reset # users[u].force_reset =>
                       /\ users[u].force_reset = 1
                       /\ users'[u].force_reset = 0
                       /\ \E p \in PasswordInputs :
                             /\ p # ""
                             /\ change_password_flow(u, p, p)
                             /\ users'[u].password = make_hash(p)
         ]_vars

\* C16 witness: a user created by the Superuser has changed the password
\* and submitted a request.
C16_Witness ==
    \E u \in UserNames :
        /\ u \notin DOMAIN InitUsers
        /\ users[u].force_reset = 0
        /\ users[u].password = make_hash("new")
        /\ \E r \in Ids : requests[r].user_key = u

(* ------------------------------ liveness ------------------------------ *)
\* The steps of a behaviour in which no approver declines, the Admin does
\* not resolve at no cost and every cost form is valid.
HodProgress(u) ==
    /\ Routed(u, "Dept HOD")
    /\ \E r \in Ids :
          \/ \E k \in Runs : HodRead(k, u, r)
          \/ \E k \in RunsOrWhole : HodApprove(k, u, r)

AdminProgress(u) ==
    /\ Routed(u, "Admin")
    /\ \E r \in Ids :
          \/ \E k \in Runs : AdminRead(k, u, r)
          \/ \E k \in RunsOrWhole : AdminIssue(k, u, r)
          \/ \E k \in RunsOrWhole : AdminSubmitCost(k, u, r, "Acme", MaxCost, "img")

ApproverProgress(u) ==
    \E role \in ApproverRoles :
        /\ Routed(u, role)
        /\ \E r \in Ids :
              \/ \E k \in Runs : ApproverRead(k, u, role, r)
              \/ \E k \in RunsOrWhole : ApproverApprove(k, u, role, r)
              \/ role = "GMD" /\ \E k \in RunsOrWhole : GmdApprove(k, u, r)

LiveStep(u) ==
    \/ Staff(u) \/ Superuser(u) \/ Password(u)
    \/ HodProgress(u) \/ AdminProgress(u) \/ ApproverProgress(u) \/ GmdInsert(u)
    \/ Sac(u) \/ Accounts(u)

LiveNext == \E u \in UserNames : LiveStep(u)

\* The pending action of each role on request r, and the Accounts' on
\* payment p.
PendingAction(r) ==
    \E u \in UserNames :
        \/ /\ Routed(u, "Dept HOD")
           /\ \E k \in RunsOrWhole : HodApprove(k, u, r)
        \/ /\ Routed(u, "Admin")
           /\ \E k \in RunsOrWhole : AdminSubmitCost(k, u, r, "Acme", MaxCost, "img")
        \/ \E role \in ApproverRoles :
              /\ Routed(u, role)
              /\ \E k \in RunsOrWhole : ApproverApprove(k, u, role, r)
        \/ /\ Routed(u, "SAC")
           /\ \E k \in RunsOrWhole, c \in CostInputs : SacValidate(k, u, r, c, "note")
        \/ /\ Routed(u, "GMD")
           /\ \E k \in RunsOrWhole : GmdApprove(k, u, r)
        \/ \E k \in Runs : GmdInsertPayment(k, u) /\ runs[k].rid = r

PayAction(p) ==
    \E u \in UserNames :
        /\ Routed(u, "Accounts")
        /\ \E k \in RunsOrWhole : MarkPaid(k, u, p)

LiveSpec ==
    /\ Init /\ [][LiveNext]_vars
    /\ \A r \in 1..MaxReq : WF_vars(PendingAction(r))
    /\ \A p \in 1..MaxPay : WF_vars(PayAction(p))

Paid(r) == \E p \in PaymentsOf(r) : payments[p].status = "Paid"

Submitted(r) == r \in Ids /\ requests[r].category # "Stationary"

\* The request is addressed to a Dept HOD who reaches the dashboard, or it
\* starts with the Admin.
HasApprover(r) ==
    \/ StartsAtAdmin(requests[r])
    \/ \E u \in UserNames : /\ Routed(u, "Dept HOD")
                            /\ users[u].email = requests[r].approver_email

\* C8 as claimed: every submitted non-Stationary request is eventually
\* paid, whatever the requester's hod_email.
C8_EndsInPayment ==
    \A r \in 1..MaxReq : Submitted(r) ~> Paid(r)

\* C8 as amended: every submitted non-Stationary request that starts with
\* the Admin or is addressed to the email of a Dept HOD is eventually paid.
C8_EndsInPaymentWithApprover ==
    \A r \in 1..MaxReq : (Submitted(r) /\ HasApprover(r)) ~> Paid(r)

\* C8 witness: a request that went through the Dept HOD has a Paid payment.
C8_Witness ==
    \E r \in Ids : /\ hist[r][1] = "Pending Dept HOD"
                   /\ requests[r].status = "Approved"
                   /\ Paid(r)

====
